---- MODULE Spec2Model ----
(***************************************************************************)
(* Model of the instagram-scraper fetch pipeline:                          *)
(*   scraper/utils/retry.py   calculate_delay, with_retry.wrapper          *)
(*   scraper/client.py        _check_for_blocks, initialize,               *)
(*                            _fetch_profile_page, _fetch_feed_page,       *)
(*                            scrape_full                                  *)
(*   scraper/parsers.py       parse_from_html, parse_feed_response         *)
(* Times are in milliseconds.  None is the empty tuple, a present value x  *)
(* is <<x>>.                                                               *)
(***************************************************************************)
EXTENDS Integers, Sequences, FiniteSets, TLC

VARIABLES
    \* ---- with_retry.wrapper (one activation at a time) ----
    wpc,            \* "idle" | "call" | "sleep" | "returned" | "raised"
    func,           \* the wrapped function: "none" | "profile" | "feed" | "op"
    config,         \* the RetryConfig of the activation
    attempt,        \* loop variable of `for attempt in range(max_attempts)`
    last_exception, \* wrapper local
    wout,           \* value returned or exception raised by the wrapper (NoOutcome before)
    delay,          \* delay of the backoff sleep in progress / last slept
    executions,     \* number of executions of func in this activation
    sleeps,         \* number of backoff sleeps in this activation
    \* ---- InstagramClient ----
    initialized,    \* self._initialized
    bootstraps,     \* number of initialize() runs in the session
    \* ---- scrape_full ----
    pc,             \* "start" | "profile" | "feed" | "returned" | "raised" | "off"
    max_posts,      \* effective cap (None or <<n>>)
    user_id,        \* profile.user_id
    all_posts,      \* accumulated posts
    next_max_id,    \* cursor (None or <<c>>)
    more_available, \* continuation flag
    errors,         \* error list
    result,         \* the ScrapeResult returned (None until then)
    raised,         \* the exception that left scrape_full (None until then)
    \* ---- history of the run (what the feed delivered, what was asked) ----
    delivered,      \* the raw items of the successfully fetched pages, in feed
                    \* order: delivered[i] is TRUE iff raw item i normalises
    fetched,        \* number of feed pages fetched successfully
    feed_calls,     \* number of _fetch_feed_page calls made by scrape_full
                    \* (both counted up to MaxPages: MaxPages stands for
                    \* MaxPages or more)
    sent_cursor,    \* None, or <<c>>: c is the max_id the latest feed request carried
    served_cursor,  \* None, or <<c>>: c is the next_max_id of the latest page fetched
    first_owner,    \* pk of the first fetched page that carried a user (None if none)
    login_seen,     \* the text of the latest feed response read held "login" and "required"
    \* ---- the session as SessionSpec follows it (Spec and RetrySpec follow the
    \*      posts and the retries only and leave these at their first values) ----
    profile_name,   \* HeaderGenerator.profile_name
    tokens,         \* self.tokens: None or <<[csrf_token |-> ...]>>
    jar,            \* the csrftoken cookie of the client's cookie jar ("" if none)
    trace,          \* what the latest execution of a fetch function did, in order
    \* ---- one application of a pure function (PureSpec) ----
    call,           \* [f |-> name, args |-> arguments]
    ret             \* None, or <<value>> once applied

wvars == <<wpc, func, config, attempt, last_exception, wout, delay, executions, sleeps>>
cvars == <<initialized, bootstraps>>
svars == <<pc, max_posts, user_id, all_posts, next_max_id, more_available, errors, result, raised>>
kvars == <<sent_cursor, served_cursor, first_owner, login_seen>>
hvars == <<delivered, fetched, feed_calls, kvars>>
ovars == <<profile_name, tokens, jar, trace>>
fvars == <<call, ret>>
xvars == <<ovars, fvars>>
vars == <<wvars, cvars, svars, hvars, ovars, fvars>>

None == <<>>
Some(x) == <<x>>

\* the values of the session variables and of the pure-function variables in
\* the specifications that do not follow them
\* no feed request was made and no page fetched
NoHistory ==
    /\ sent_cursor = None /\ served_cursor = None /\ first_owner = None
    /\ login_seen = FALSE

SessionUnobserved ==
    profile_name = "chrome_windows" /\ tokens = None /\ jar = "" /\ trace = <<>>

NoCall == call = None /\ ret = None

\* ------------------------------------------------------------------ bounds
MaxPages == 3
MaxBatch == 2
MaxCap == 2
MaxAttemptsBound == 3
MaxBad == 1
MaxItems == 3
MaxBootstraps == 2

\* ------------------------------------------------------- retry.py: RetryConfig
DefaultRetryOnStatus == {429, 500, 502, 503, 504}

RateLimitStatus == 429

RateLimitFactor == 5

MinDelayMs == 100

\* RetryConfig() field defaults, with max_attempts as given by the decorator
RetryConfig(maxAttempts) ==
    [max_attempts |-> maxAttempts, base_delay |-> 2000, max_delay |-> 300000,
     exponential_base |-> 2, jitter |-> TRUE, retry_on_status |-> DefaultRetryOnStatus]

\* @with_retry(RetryConfig(max_attempts=3)) on both fetch functions
ClientMaxAttempts == 3

\* the wrapper has neither returned nor raised yet
NoOutcome == [kind |-> "none"]

\* ------------------------------------------------------- exceptions
\* type: the Python class; status: HTTP status (0 if none); block: block_type
\* ("" if none); msg: what the message of a RetryableError reports ("" else);
\* at: the 0-based attempt whose execution raised it.
ExcMsg(type, status, block, msg, at) ==
    [type |-> type, status |-> status, block |-> block, msg |-> msg, at |-> at]

Exc(type, status, block, at) == ExcMsg(type, status, block, "", at)

TransportTypes == {"ConnectError", "TimeoutException"}

\* ------------------------------------------------------- retry.py: calculate_delay
RECURSIVE Pow(_, _)
Pow(b, n) == IF n = 0 THEN 1 ELSE b * Pow(b, n - 1)

Min(a, b) == IF a <= b THEN a ELSE b
Max(a, b) == IF a >= b THEN a ELSE b

\* random.uniform(-jitter_range, jitter_range) as a percentage of the delay
JitterPercents == {-25, 0, 25}

\* mutant: the result is not floored at the minimum delay
calculate_delay_NoFloor(att, cfg, response_status, j) ==
    LET base == IF response_status = Some(RateLimitStatus)
                THEN cfg.base_delay * RateLimitFactor
                ELSE cfg.base_delay
        capped == Min(base * Pow(cfg.exponential_base, att), cfg.max_delay)
    IN  IF cfg.jitter THEN capped + (capped * j) \div 100 ELSE capped

\* mutant: a 429 is not given the longer base delay
calculate_delay_NoAmplify(att, cfg, response_status, j) ==
    LET capped == Min(cfg.base_delay * Pow(cfg.exponential_base, att), cfg.max_delay)
        jittered == IF cfg.jitter THEN capped + (capped * j) \div 100 ELSE capped
    IN  Max(jittered, MinDelayMs)

\* response_status is None or <<status>>; j is the jitter draw in percent
calculate_delay(att, cfg, response_status, j) ==
    LET base == IF response_status = Some(RateLimitStatus)
                THEN cfg.base_delay * RateLimitFactor
                ELSE cfg.base_delay
        capped == Min(base * Pow(cfg.exponential_base, att), cfg.max_delay)
        jittered == IF cfg.jitter THEN capped + (capped * j) \div 100 ELSE capped
    IN  Max(jittered, MinDelayMs)

\* ------------------------------------------------------- retry.py: wrapper
\* How the except clauses of the wrapper classify an exception of func.
IsStatusError(e) == e.type = "HTTPStatusError"
IsTransportError(e) == e.type \in TransportTypes
IsRetryableError(e) == e.type = "RetryableError"

\* mutant: BlockDetectedError is caught and retried like RetryableError
Retryable_BlockRetried(e, cfg) ==
    \/ IsStatusError(e) /\ e.status \in cfg.retry_on_status
    \/ IsTransportError(e)
    \/ IsRetryableError(e)
    \/ e.type = "BlockDetectedError"

\* mutant: a not_found block is taken for a transient failure and retried
Retryable_NotFoundRetried(e, cfg) ==
    \/ IsStatusError(e) /\ e.status \in cfg.retry_on_status
    \/ IsTransportError(e)
    \/ IsRetryableError(e)
    \/ e.type = "BlockDetectedError" /\ e.block = "not_found"

\* the exception is caught by one of the three except clauses and not
\* re-raised by `if status not in retry_on_status: raise`
\* mutant: the generic retryable signal is not retried
Retryable_SignalNotRetried(e, cfg) ==
    \/ IsStatusError(e) /\ e.status \in cfg.retry_on_status
    \/ IsTransportError(e)

Retryable(e, cfg) ==
    \/ IsStatusError(e) /\ e.status \in cfg.retry_on_status
    \/ IsTransportError(e)
    \/ IsRetryableError(e)

\* the status handed to calculate_delay: only the HTTPStatusError clause passes it
DelayStatus(e) == IF IsStatusError(e) THEN Some(e.status) ELSE None

\* func returned `value` on this attempt: `return await func(...)`
WrapperReturn(value) ==
    /\ wpc' = "returned"
    /\ wout' = value
    /\ executions' = executions + 1
    /\ UNCHANGED <<func, config, attempt, last_exception, delay, sleeps>>

\* mutant: the last attempt sleeps too (`attempt < max_attempts`), the
\* failure is raised by the statement after the loop
WrapperExcept_SleepsAfterLast(e) ==
    /\ executions' = executions + 1
    /\ IF Retryable(e, config)
       THEN /\ last_exception' = Some(e)
            /\ \E j \in JitterPercents :
                  delay' = calculate_delay(attempt, config, DelayStatus(e), j)
            /\ wpc' = "sleep"
            /\ UNCHANGED wout
       ELSE /\ wpc' = "raised"
            /\ wout' = e
            /\ last_exception' = IF IsStatusError(e) THEN Some(e) ELSE last_exception
            /\ UNCHANGED delay
    /\ UNCHANGED <<func, config, attempt, sleeps>>

\* mutant: the delay is computed from the 1-based number of the attempt
WrapperExcept_OneBasedDelay(e) ==
    /\ executions' = executions + 1
    /\ IF Retryable(e, config)
       THEN /\ last_exception' = Some(e)
            /\ IF attempt < config.max_attempts - 1
               THEN /\ \E j \in JitterPercents :
                          delay' = calculate_delay(attempt + 1, config, DelayStatus(e), j)
                    /\ wpc' = "sleep"
                    /\ UNCHANGED wout
               ELSE /\ wpc' = "raised"
                    /\ wout' = e
                    /\ UNCHANGED delay
       ELSE /\ wpc' = "raised"
            /\ wout' = e
            /\ last_exception' = IF IsStatusError(e) THEN Some(e) ELSE last_exception
            /\ UNCHANGED delay
    /\ UNCHANGED <<func, config, attempt, sleeps>>

\* func raised `e` on this attempt: the except clauses of the wrapper
WrapperExcept(e) ==
    /\ executions' = executions + 1
    /\ IF Retryable(e, config)
       THEN /\ last_exception' = Some(e)
            /\ IF attempt < config.max_attempts - 1
               THEN /\ \E j \in JitterPercents :
                          delay' = calculate_delay(attempt, config, DelayStatus(e), j)
                    /\ wpc' = "sleep"
                    /\ UNCHANGED wout
               ELSE /\ wpc' = "raised"
                    /\ wout' = e
                    /\ UNCHANGED delay
       ELSE /\ wpc' = "raised"
            /\ wout' = e
            /\ last_exception' = IF IsStatusError(e) THEN Some(e) ELSE last_exception
            /\ UNCHANGED delay
    /\ UNCHANGED <<func, config, attempt, sleeps>>

\* `await asyncio.sleep(delay)` completes; the for loop takes the next attempt
WrapperSleep ==
    /\ wpc = "sleep"
    /\ wpc' = "call"
    /\ attempt' = attempt + 1
    /\ sleeps' = sleeps + 1
    /\ delay' = 0
    /\ UNCHANGED <<func, config, last_exception, wout, executions>>

\* entering the wrapper for function f under policy cfg
WrapperEnter(f, cfg) ==
    /\ wpc' = "call"
    /\ func' = f
    /\ config' = cfg
    /\ attempt' = 0
    /\ last_exception' = None
    /\ wout' = NoOutcome
    /\ delay' = 0
    /\ executions' = 0
    /\ sleeps' = 0

\* `for attempt in range(max_attempts)` is over: `raise last_exception`
\* (with last_exception = None, when max_attempts = 0, a TypeError)
WrapperLoopOver ==
    /\ wpc = "call"
    /\ attempt >= config.max_attempts
    /\ wpc' = "raised"
    /\ wout' = IF last_exception = None
               THEN Exc("TypeError", 0, "", attempt)
               ELSE last_exception[1]
    /\ UNCHANGED <<func, config, attempt, last_exception, delay, executions, sleeps>>

\* ------------------------------------------------------- config.py: BLOCK_PATTERNS
\* (block_type, pattern.lower()) in the iteration order of the dict
BLOCK_PATTERNS ==
    << <<"login_required", "login required">>,
       <<"login_required", "please wait a few minutes before you try again">>,
       <<"challenge_required", "checkpoint_required">>,
       <<"not_found", "page not found">>,
       <<"not_found", "sorry, this page isn">>,
       <<"rate_limited", "please wait a few minutes">>,
       <<"rate_limited", "rate limit">> >>

Phrases == {BLOCK_PATTERNS[i][2] : i \in DOMAIN BLOCK_PATTERNS}

\* a text that contains the long phrase contains its prefix
PhraseClosure(S) ==
    S \cup (IF "please wait a few minutes before you try again" \in S
            THEN {"please wait a few minutes"} ELSE {})

\* ------------------------------------------------------- responses (the environment)
StatusCodes == {404, 429, 500}

Paths == {"profile", "login", "challenge"}

\* A profile document: og_title / og_desc are "absent" (no property="og:..."
\* text), "marker" (the text is there, the parser's patterns extract nothing)
\* or "parsed" (the parser extracts a field); phrases are the block phrases
\* the lowercased body contains; small is len(html) < 1000; username is
\* "username" in html.
MetaStates == {"absent", "marker", "parsed"}

ProfileBodies ==
    [og_title : MetaStates, og_desc : MetaStates, og_image : BOOLEAN,
     phrases : {{}} \cup {PhraseClosure({p}) : p \in Phrases},
     small : BOOLEAN, username : BOOLEAN]

TransportResponses == {[kind |-> "transport", type |-> t] : t \in TransportTypes}

StatusResponses == {[kind |-> "status", status |-> s] : s \in StatusCodes}

ProfileResponses ==
    TransportResponses \cup StatusResponses
    \cup [kind : {"response"}, path : Paths, body : ProfileBodies]

\* the bootstrap GET of initialize(): a transport error, an error status, or a page
BootResponses == TransportResponses \cup StatusResponses \cup {[kind |-> "response"]}

\* ------------------------------------------------------- client.py: _check_for_blocks
Raise(e) == [kind |-> "raise", exc |-> e]
Return(v) == [kind |-> "return", value |-> v]

HasBothMarkers(body) == body.og_title # "absent" /\ body.og_desc # "absent"

Matches(body) == {i \in DOMAIN BLOCK_PATTERNS : BLOCK_PATTERNS[i][2] \in body.phrases}

FirstMatch(body) == CHOOSE i \in Matches(body) : \A k \in Matches(body) : i <= k

\* mutant: the phrase scan runs before the test for the two meta markers
_check_for_blocks_ScanFirst(path, body, at) ==
    IF path = "login"
    THEN Raise(Exc("BlockDetectedError", 0, "login_required", at))
    ELSE IF path = "challenge"
    THEN Raise(Exc("BlockDetectedError", 0, "challenge_required", at))
    ELSE IF Matches(body) # {}
    THEN Raise(Exc("BlockDetectedError", 0, BLOCK_PATTERNS[FirstMatch(body)][1], at))
    ELSE IF HasBothMarkers(body)
    THEN Return(body)
    ELSE IF body.small /\ ~body.username
    THEN Raise(ExcMsg("RetryableError", 0, "", "minimal_response", at))
    ELSE Return(body)

\* mutant: the test for the two meta markers runs before the redirect checks
_check_for_blocks_MarkersFirst(path, body, at) ==
    IF HasBothMarkers(body)
    THEN Return(body)
    ELSE IF path = "login"
    THEN Raise(Exc("BlockDetectedError", 0, "login_required", at))
    ELSE IF path = "challenge"
    THEN Raise(Exc("BlockDetectedError", 0, "challenge_required", at))
    ELSE IF Matches(body) # {}
    THEN Raise(Exc("BlockDetectedError", 0, BLOCK_PATTERNS[FirstMatch(body)][1], at))
    ELSE IF body.small /\ ~body.username
    THEN Raise(ExcMsg("RetryableError", 0, "", "minimal_response", at))
    ELSE Return(body)

_check_for_blocks(path, body, at) ==
    IF path = "login"
    THEN Raise(Exc("BlockDetectedError", 0, "login_required", at))
    ELSE IF path = "challenge"
    THEN Raise(Exc("BlockDetectedError", 0, "challenge_required", at))
    ELSE IF HasBothMarkers(body)
    THEN Return(body)
    ELSE IF Matches(body) # {}
    THEN Raise(Exc("BlockDetectedError", 0, BLOCK_PATTERNS[FirstMatch(body)][1], at))
    ELSE IF body.small /\ ~body.username
    THEN Raise(ExcMsg("RetryableError", 0, "", "minimal_response", at))
    ELSE Return(body)

\* response.raise_for_status() / the transport raising, else the response
Transport(resp, at) ==
    IF resp.kind = "transport" THEN Raise(Exc(resp.type, 0, "", at))
    ELSE IF resp.kind = "status" THEN Raise(Exc("HTTPStatusError", resp.status, "", at))
    ELSE Return(resp)

\* ------------------------------------------------------- client.py: initialize
\* _ensure_initialized + initialize: [out, initialized, ran]
EnsureInitialized(init, boot, at) ==
    IF init
    THEN [out |-> Return(None), initialized |-> TRUE, ran |-> 0]
    ELSE LET t == Transport(boot, at)
         IN  [out |-> t, initialized |-> (t.kind = "return"), ran |-> 1]

\* ------------------------------------------------------- client.py: _fetch_profile_page
\* one execution of the function body: [out, initialized, ran]
_fetch_profile_page(init, boot, resp, at) ==
    LET ens == EnsureInitialized(init, boot, at)
        got == Transport(resp, at)
    IN  IF ens.out.kind = "raise" THEN ens
        ELSE [ens EXCEPT !.out =
                 IF got.kind = "raise" THEN got
                 ELSE _check_for_blocks(resp.path, resp.body, at)]

\* ------------------------------------------------------- the feed API (the environment)
Cursors == {"C1", "C2"}

UserPks == {"7", "8"}

BadCount(flags) == Cardinality({i \in DOMAIN flags : ~flags[i]})

\* item batches of at most MaxBatch raw items (the account has at most
\* MaxItems, of which at most MaxBad do not normalise); a flag is FALSE for an
\* item whose normalisation raises.  sofar: the flags delivered so far
Batches(sofar) ==
    {b \in UNION {[1..n -> BOOLEAN] : n \in 0..Min(MaxBatch, MaxItems - Len(sofar))} :
        BadCount(b) <= MaxBad - BadCount(sofar)}

\* the decoded JSON object of a well-formed feed response
FeedData(sofar) ==
    [items : Batches(sofar),
     next_max_id : {None} \cup {Some(c) : c \in Cursors},
     more_available : BOOLEAN,
     user : {None} \cup {Some(u) : u \in UserPks}]

EmptyData == [items |-> <<>>, next_max_id |-> None, more_available |-> FALSE, user |-> None]

\* json: "invalid" (not JSON), "nondict" (JSON, not an object), "fail_rate" /
\* "fail_other" (status = "fail" with / without a rate or wait message),
\* "bad_items" (items is not a list), "ok".  login_text: the lowercased text
\* contains both "login" and "required".
JsonKinds == {"invalid", "nondict", "fail_rate", "fail_other", "bad_items", "ok"}

FeedBodies(sofar) ==
    [login_text : BOOLEAN, json : JsonKinds, data : {EmptyData}]
    \cup [login_text : {FALSE}, json : {"ok"}, data : FeedData(sofar)]

FeedResponses(sofar) ==
    TransportResponses \cup StatusResponses
    \cup [kind : {"response"}, body : FeedBodies(sofar)]

\* ------------------------------------------------------- client.py: _fetch_feed_page
\* mutant: the text is decoded as JSON before it is searched for the two words
FeedBody_JsonFirst(body, at) ==
    IF body.json = "invalid"
    THEN Raise(ExcMsg("RetryableError", 0, "", "invalid_json", at))
    ELSE IF body.login_text
    THEN Raise(Exc("BlockDetectedError", 0, "login_required", at))
    ELSE IF body.json = "nondict"
    THEN Raise(Exc("AttributeError", 0, "", at))
    ELSE IF body.json = "fail_rate"
    THEN Raise(ExcMsg("RetryableError", 0, "", "rate_limited", at))
    ELSE IF body.json = "fail_other"
    THEN Raise(Exc("ParserError", 0, "", at))
    ELSE Return(body)

FeedBody(body, at) ==
    IF body.login_text
    THEN Raise(Exc("BlockDetectedError", 0, "login_required", at))
    ELSE IF body.json = "invalid"
    THEN Raise(ExcMsg("RetryableError", 0, "", "invalid_json", at))
    ELSE IF body.json = "nondict"
    THEN Raise(Exc("AttributeError", 0, "", at))
    ELSE IF body.json = "fail_rate"
    THEN Raise(ExcMsg("RetryableError", 0, "", "rate_limited", at))
    ELSE IF body.json = "fail_other"
    THEN Raise(Exc("ParserError", 0, "", at))
    ELSE Return(body)

_fetch_feed_page(init, boot, resp, at) ==
    LET ens == EnsureInitialized(init, boot, at)
        got == Transport(resp, at)
    IN  IF ens.out.kind = "raise" THEN ens
        ELSE [ens EXCEPT !.out =
                 IF got.kind = "raise" THEN got ELSE FeedBody(resp.body, at)]

\* ------------------------------------------------------- parsers.py
\* extract_from_meta_tags returns a non-empty dict
Extractable(html) ==
    html.og_title = "parsed" \/ html.og_desc = "parsed" \/ html.og_image

\* parse_from_html: a ProfileData (user_id = "") or ParserError
parse_from_html(html) ==
    IF Extractable(html) THEN Return([user_id |-> ""])
    ELSE Raise(Exc("ParserError", 0, "", 0))

\* the ids of the raw items first+1 .. first+Len(flags) that normalise
RECURSIVE Normalised(_, _)
Normalised(flags, first) ==
    IF flags = <<>> THEN <<>>
    ELSE (IF Head(flags) THEN <<first + 1>> ELSE <<>>) \o Normalised(Tail(flags), first + 1)

\* parse_feed_response: (posts, next_max_id, more_available); an item whose
\* parse_feed_item raises is skipped
parse_feed_response(data, first) ==
    [posts |-> Normalised(data.items, first),
     next_max_id |-> data.next_max_id,
     more_available |-> data.more_available]

\* Python truthiness of an optional string / optional int
Truthy(opt, falsy) == opt # None /\ opt[1] # falsy

\* ------------------------------------------------------- client.py: scrape_full
ClientConfig == RetryConfig(ClientMaxAttempts)

\* caps a caller or the configuration can give: None, 0, 1 .. MaxCap
Caps == {None} \cup {Some(n) : n \in 0..MaxCap}

WrapperIdle ==
    /\ wpc' = "idle"
    /\ func' = "none"
    /\ attempt' = 0
    /\ last_exception' = None
    /\ wout' = NoOutcome
    /\ delay' = 0
    /\ executions' = 0
    /\ sleeps' = 0
    /\ UNCHANGED config

\* mutant: the cap test is off by one (`>` for `>=`)
CapReached_OffByOne(posts) == Truthy(max_posts, 0) /\ Len(posts) > max_posts[1]

\* mutant: a cap of 0 is a cap (`if max_posts is not None and ...`)
CapReached_ZeroIsCap(posts) == max_posts # None /\ Len(posts) >= max_posts[1]

\* `if max_posts and len(all_posts) >= max_posts`
CapReached(posts) == Truthy(max_posts, 0) /\ Len(posts) >= max_posts[1]

\* `if max_posts and len(all_posts) > max_posts: all_posts = all_posts[:max_posts]`
Trim(posts) ==
    IF Truthy(max_posts, 0) /\ Len(posts) > max_posts[1]
    THEN SubSeq(posts, 1, max_posts[1])
    ELSE posts

\* mutant: the flag alone, whether or not a cursor exists
HasMore_FlagOnly(more, cursor) == more

\* has_more_posts = more_available and bool(next_max_id)
HasMore(more, cursor) == more /\ Truthy(cursor, "")

ScrapeResult(posts, more, cursor, errs, uid) ==
    [posts |-> posts, total_posts_scraped |-> Len(posts),
     has_more_posts |-> HasMore(more, cursor), errors |-> errs, user_id |-> uid]

\* the statement after the while loop, to the return
Finish(posts, cursor, more, errs, uid) ==
    /\ pc' = "returned"
    /\ all_posts' = Trim(posts)
    /\ next_max_id' = cursor
    /\ more_available' = more
    /\ errors' = errs
    /\ user_id' = uid
    /\ result' = Some(ScrapeResult(Trim(posts), more, cursor, errs, uid))
    /\ WrapperIdle
    /\ UNCHANGED <<max_posts, raised, feed_calls>>

\* the head of `while more_available:` up to the call of _fetch_feed_page
LoopHead(posts, cursor, more, errs, uid) ==
    IF more /\ ~CapReached(posts)
    THEN /\ pc' = "feed"
         /\ all_posts' = posts
         /\ next_max_id' = cursor
         /\ more_available' = more
         /\ errors' = errs
         /\ user_id' = uid
         /\ feed_calls' = Min(feed_calls + 1, MaxPages)
         /\ WrapperEnter("feed", ClientConfig)
         /\ UNCHANGED <<max_posts, result, raised>>
    ELSE Finish(posts, cursor, more, errs, uid)

\* an exception leaves scrape_full
Propagate(e) ==
    /\ pc' = "raised"
    /\ raised' = Some(e)
    /\ UNCHANGED <<max_posts, user_id, all_posts, next_max_id, more_available, errors, result>>

\* scrape_full(username, max_posts) is called: max_posts is the argument, or
\* config.max_posts when the argument is None
StartScrape ==
    /\ pc = "start"
    /\ \E arg \in Caps, cfgmax \in Caps :
           max_posts' = IF arg = None THEN cfgmax ELSE arg
    /\ pc' = "profile"
    /\ WrapperEnter("profile", ClientConfig)
    /\ UNCHANGED <<user_id, all_posts, next_max_id, more_available, errors, result, raised>>
    /\ UNCHANGED <<cvars, hvars, xvars>>

\* mutant: every page that carries a user sets the id
BackFill_Overwrites(uid, data) == IF data.user # None THEN data.user[1] ELSE uid

\* `if not profile.user_id and data.get("user")`
BackFill(uid, data) == IF uid = "" /\ data.user # None THEN data.user[1] ELSE uid

\* _fetch_profile_page returned html through the wrapper: parse_from_html,
\* the initialisation of the loop and its first head (no await in between)
ProfileReturned(html) ==
    LET parsed == parse_from_html(html)
    IN  IF parsed.kind = "raise"
        THEN /\ Propagate(parsed.exc)
             /\ WrapperReturn(html)
             /\ UNCHANGED feed_calls
        ELSE LoopHead(<<>>, None, TRUE, <<>>, parsed.value.user_id)

\* _fetch_feed_page returned the response body through the wrapper: the rest
\* of the try block (or `except Exception` when it raises), then the loop
\* head or the return (no await in between)
FeedReturned(body) ==
    LET data == body.data
        uid == BackFill(user_id, data)
        page == parse_feed_response(data, Len(delivered))
        posts == all_posts \o page.posts
    IN  IF body.json = "bad_items"
        THEN /\ Finish(all_posts, next_max_id, more_available,
                       Append(errors, Exc("TypeError", 0, "", attempt)), uid)
             /\ UNCHANGED <<delivered, fetched, served_cursor, first_owner>>
        ELSE /\ delivered' = delivered \o data.items
             /\ fetched' = Min(fetched + 1, MaxPages)
             /\ served_cursor' = Some(data.next_max_id)
             /\ first_owner' = IF first_owner = None THEN data.user ELSE first_owner
             /\ IF ~Truthy(page.next_max_id, "")
                THEN Finish(posts, page.next_max_id, page.more_available, errors, uid)
                ELSE LoopHead(posts, page.next_max_id, page.more_available, errors, uid)

\* what the bootstrap request (made only when the session is not
\* initialised) can answer
BootChoices == IF initialized THEN {[kind |-> "response"]} ELSE BootResponses

\* the executions of _fetch_profile_page the environment can cause now: the
\* bootstrap answer, then (if it came) the answer to the profile request
ProfileExecutions ==
    UNION {{_fetch_profile_page(initialized, boot, resp, attempt) :
                resp \in (IF boot.kind = "response" THEN ProfileResponses ELSE {boot})} :
           boot \in BootChoices}

\* one execution of _fetch_profile_page inside the wrapper
ProfileAttempt ==
    /\ pc = "profile" /\ wpc = "call" /\ attempt < config.max_attempts
    /\ \E r \in ProfileExecutions :
           /\ initialized' = r.initialized
           /\ bootstraps' = bootstraps + r.ran
           /\ IF r.out.kind = "return"
              THEN ProfileReturned(r.out.value)
              ELSE WrapperExcept(r.out.exc) /\ UNCHANGED <<svars, feed_calls>>
    /\ UNCHANGED <<delivered, fetched, kvars, xvars>>

\* mutant: the URL of the feed request never carries the cursor
FeedUrlCursor_Dropped(max_id) == None

\* the max_id of the feed URL: `if max_id: url += f"&max_id={max_id}"`
FeedUrlCursor(max_id) == IF Truthy(max_id, "") THEN max_id ELSE None

\* the execution of _fetch_feed_page on the answers boot and resp; text is
\* None when response.text was not read, else <<b>>: b says whether it holds
\* both "login" and "required"
FeedExecution(boot, resp) ==
    LET r == _fetch_feed_page(initialized, boot, resp, attempt)
    IN  [out |-> r.out, initialized |-> r.initialized, ran |-> r.ran,
         text |-> IF r.initialized /\ resp.kind = "response"
                  THEN Some(resp.body.login_text)
                  ELSE None]

\* the executions of _fetch_feed_page the environment can cause now
FeedExecutions ==
    UNION {{FeedExecution(boot, resp) :
                resp \in (IF boot.kind = "response" THEN FeedResponses(delivered) ELSE {boot})} :
           boot \in BootChoices}

\* one execution of _fetch_feed_page inside the wrapper
FeedAttempt ==
    /\ pc = "feed" /\ wpc = "call" /\ attempt < config.max_attempts
    /\ \E r \in FeedExecutions :
           /\ initialized' = r.initialized
           /\ bootstraps' = bootstraps + r.ran
           /\ sent_cursor' = IF r.initialized
                             THEN Some(FeedUrlCursor(next_max_id))
                             ELSE sent_cursor
           /\ login_seen' = IF r.text = None THEN login_seen ELSE r.text[1]
           /\ IF r.out.kind = "return"
              THEN FeedReturned(r.out.value)
              ELSE /\ WrapperExcept(r.out.exc)
                   /\ UNCHANGED <<svars, delivered, fetched, feed_calls>>
                   /\ UNCHANGED <<served_cursor, first_owner>>
    /\ UNCHANGED xvars

\* the backoff sleep of the wrapper ends
RetrySleep ==
    /\ WrapperSleep
    /\ UNCHANGED <<cvars, svars, hvars, xvars>>

\* the wrapper of _fetch_profile_page raised: `except Exception: raise`
ProfileFailed ==
    /\ pc = "profile" /\ wpc = "raised"
    /\ Propagate(wout)
    /\ UNCHANGED <<wvars, cvars, hvars, xvars>>

\* mutant: the except clause starts the result from an empty post list
FeedFailed_DropsPosts ==
    /\ pc = "feed" /\ wpc = "raised"
    /\ Finish(<<>>, next_max_id, more_available, Append(errors, wout), user_id)
    /\ UNCHANGED <<cvars, delivered, fetched, kvars, xvars>>

\* mutant: a block error is not caught by the loop and leaves scrape_full
FeedFailed_BlockPropagates ==
    /\ pc = "feed" /\ wpc = "raised"
    /\ IF wout.type = "BlockDetectedError"
       THEN Propagate(wout) /\ UNCHANGED <<wvars, feed_calls>>
       ELSE Finish(all_posts, next_max_id, more_available, Append(errors, wout), user_id)
    /\ UNCHANGED <<cvars, delivered, fetched, kvars, xvars>>

\* mutant: the except clause records the error and goes on with the loop
FeedFailed_ContinuesLoop ==
    /\ pc = "feed" /\ wpc = "raised"
    /\ LoopHead(all_posts, next_max_id, more_available, Append(errors, wout), user_id)
    /\ UNCHANGED <<cvars, delivered, fetched, kvars, xvars>>

\* the wrapper of _fetch_feed_page raised: the except clauses of the loop
\* (all three append str(e) and break), then the return
FeedFailed ==
    /\ pc = "feed" /\ wpc = "raised"
    /\ Finish(all_posts, next_max_id, more_available, Append(errors, wout), user_id)
    /\ UNCHANGED <<cvars, delivered, fetched, kvars, xvars>>

\* the task running scrape_full is cancelled while suspended in an await of
\* the fetch or in the backoff sleep: CancelledError is a BaseException, no
\* except clause of the wrapper or of scrape_full catches it
Cancel ==
    /\ pc \in {"profile", "feed"} /\ wpc \in {"call", "sleep"}
    /\ Propagate(Exc("CancelledError", 0, "", attempt))
    /\ wpc' = "raised"
    /\ wout' = Exc("CancelledError", 0, "", attempt)
    /\ last_exception' = None
    /\ delay' = 0
    /\ UNCHANGED <<func, config, attempt, executions, sleeps>>
    /\ UNCHANGED <<cvars, hvars, xvars>>

Init ==
    /\ wpc = "idle" /\ func = "none" /\ config = ClientConfig
    /\ attempt = 0 /\ last_exception = None /\ wout = NoOutcome
    /\ delay = 0 /\ executions = 0 /\ sleeps = 0
    /\ initialized = FALSE /\ bootstraps = 0
    /\ pc = "start" /\ max_posts = None /\ user_id = ""
    /\ all_posts = <<>> /\ next_max_id = None /\ more_available = TRUE
    /\ errors = <<>> /\ result = None /\ raised = None
    /\ delivered = <<>> /\ fetched = 0 /\ feed_calls = 0 /\ NoHistory
    /\ SessionUnobserved /\ NoCall

Next ==
    \/ StartScrape
    \/ ProfileAttempt
    \/ FeedAttempt
    \/ RetrySleep
    \/ ProfileFailed
    \/ FeedFailed
    \/ Cancel

Spec == Init /\ [][Next]_vars

\* the steps of scrape_full itself: everything but the cancellation
Progress ==
    \/ StartScrape
    \/ ProfileAttempt
    \/ FeedAttempt
    \/ RetrySleep
    \/ ProfileFailed
    \/ FeedFailed

\* scrape_full with every network call and every sleep completing
LiveSpec == Spec /\ WF_vars(Progress)

\* ------------------------------------------------------- the wrapper alone
\* with_retry(config) around an arbitrary operation: the policy is drawn at
\* the start, every execution of the operation returns or raises anything.
Policies ==
    [max_attempts : 0..MaxAttemptsBound,
     base_delay : {10, 2000},
     max_delay : {3000, 300000},
     exponential_base : {1, 2},
     jitter : BOOLEAN,
     retry_on_status : {DefaultRetryOnStatus, {}, {404, 500}}]

BlockTypes == {BLOCK_PATTERNS[i][1] : i \in DOMAIN BLOCK_PATTERNS}

\* what an execution of the operation can raise on attempt `at`
OpExceptions(at) ==
    {Exc("HTTPStatusError", s, "", at) : s \in StatusCodes}
    \cup {Exc(t, 0, "", at) : t \in TransportTypes}
    \cup {Exc("RetryableError", 0, "", at)}
    \cup {Exc("BlockDetectedError", 0, b, at) : b \in BlockTypes}
    \cup {Exc("ParserError", 0, "", at), Exc("ValueError", 0, "", at)}

RetryInit ==
    /\ wpc = "call" /\ func = "op" /\ config \in Policies
    /\ attempt = 0 /\ last_exception = None /\ wout = NoOutcome
    /\ delay = 0 /\ executions = 0 /\ sleeps = 0
    /\ initialized = FALSE /\ bootstraps = 0
    /\ pc = "off" /\ max_posts = None /\ user_id = ""
    /\ all_posts = <<>> /\ next_max_id = None /\ more_available = TRUE
    /\ errors = <<>> /\ result = None /\ raised = None
    /\ delivered = <<>> /\ fetched = 0 /\ feed_calls = 0 /\ NoHistory
    /\ SessionUnobserved /\ NoCall

\* what the wrapped operation returns when it succeeds
OpValue == [kind |-> "value"]

\* one execution of the wrapped operation
OpAttempt ==
    /\ pc = "off" /\ wpc = "call" /\ attempt < config.max_attempts
    /\ \/ WrapperReturn(OpValue)
       \/ \E e \in OpExceptions(attempt) : WrapperExcept(e)
    /\ UNCHANGED <<cvars, svars, hvars, xvars>>

\* the for loop ends without an execution left
OpLoopOver ==
    /\ pc = "off"
    /\ WrapperLoopOver
    /\ UNCHANGED <<cvars, svars, hvars, xvars>>

RetryNext ==
    \/ OpAttempt
    \/ RetrySleep
    \/ OpLoopOver

RetrySpec == RetryInit /\ [][RetryNext]_vars

\* the wrapper alone, every execution of the operation and every
\* asyncio.sleep completing
RetryLiveSpec == RetrySpec /\ WF_vars(RetryNext)

\* ------------------------------------------------------- utils/headers.py
\* a catalog field that is None (falsy, like the empty string)
Undefined == ""

UA_PROFILES ==
    [chrome_windows |->
        [user_agent |-> "Windows NT 10.0 Chrome/120.0.0.0 Safari/537.36",
         sec_ch_ua |-> "Chromium;v=120, Google Chrome;v=120",
         sec_ch_ua_mobile |-> "?0", sec_ch_ua_platform |-> "Windows",
         accept_language |-> "en-US,en;q=0.9"],
     chrome_mac |->
        [user_agent |-> "Mac OS X 10_15_7 Chrome/120.0.0.0 Safari/537.36",
         sec_ch_ua |-> "Chromium;v=120, Google Chrome;v=120",
         sec_ch_ua_mobile |-> "?0", sec_ch_ua_platform |-> "macOS",
         accept_language |-> "en-US,en;q=0.9"],
     firefox_windows |->
        [user_agent |-> "Windows NT 10.0 rv:121.0 Gecko/20100101 Firefox/121.0",
         sec_ch_ua |-> Undefined,
         sec_ch_ua_mobile |-> Undefined, sec_ch_ua_platform |-> Undefined,
         accept_language |-> "en-US,en;q=0.5"],
     safari_mac |->
        [user_agent |-> "Mac OS X 14_0 Version/17.0 Safari/605.1.15",
         sec_ch_ua |-> Undefined,
         sec_ch_ua_mobile |-> Undefined, sec_ch_ua_platform |-> Undefined,
         accept_language |-> "en-US,en;q=0.9"],
     edge_windows |->
        [user_agent |-> "Windows NT 10.0 Chrome/120.0.0.0 Safari/537.36 Edg/120.0.0.0",
         sec_ch_ua |-> "Chromium;v=120, Microsoft Edge;v=120",
         sec_ch_ua_mobile |-> "?0", sec_ch_ua_platform |-> "Windows",
         accept_language |-> "en-US,en;q=0.9"]]

ProfileNames == DOMAIN UA_PROFILES

\* HeaderGenerator.__init__: the profile names the constructor can fix for
\* the requested name (None, a catalog name, or a name not in the catalog)
HeaderGenerator(requested) ==
    IF requested # None /\ requested[1] # "" /\ requested[1] \in ProfileNames
    THEN {requested[1]}
    ELSE ProfileNames

\* a header of a request: not sent, or sent with a value
Absent == [sent |-> FALSE, value |-> ""]
Sent(v) == [sent |-> TRUE, value |-> v]

\* the headers of no request
NoHeaders ==
    [User_Agent |-> Absent, Accept_Language |-> Absent, Sec_CH_UA |-> Absent,
     Sec_CH_UA_Mobile |-> Absent, Sec_CH_UA_Platform |-> Absent,
     X_CSRFToken |-> Absent]

\* mutant: the client hints are attached whatever the profile defines
ClientHints_Always(profile, headers) ==
    [headers EXCEPT !.Sec_CH_UA = Sent(profile.sec_ch_ua),
                    !.Sec_CH_UA_Mobile = Sent(profile.sec_ch_ua_mobile),
                    !.Sec_CH_UA_Platform = Sent(profile.sec_ch_ua_platform)]

\* `if self.profile.get("sec_ch_ua"):` and the three assignments
ClientHints(profile, headers) ==
    IF profile.sec_ch_ua # Undefined
    THEN [headers EXCEPT !.Sec_CH_UA = Sent(profile.sec_ch_ua),
                         !.Sec_CH_UA_Mobile = Sent(profile.sec_ch_ua_mobile),
                         !.Sec_CH_UA_Platform = Sent(profile.sec_ch_ua_platform)]
    ELSE headers

\* the identity headers of get_base_headers (the fixed ones are left out)
get_base_headers(name) ==
    LET profile == UA_PROFILES[name]
    IN  ClientHints(profile,
            [NoHeaders EXCEPT !.User_Agent = Sent(profile.user_agent),
                              !.Accept_Language = Sent(profile.accept_language)])

\* the identity and csrf headers of get_ajax_headers
get_ajax_headers(name, csrf_token) ==
    LET profile == UA_PROFILES[name]
    IN  ClientHints(profile,
            [NoHeaders EXCEPT !.User_Agent = Sent(profile.user_agent),
                              !.Accept_Language = Sent(profile.accept_language),
                              !.X_CSRFToken = Sent(csrf_token)])

\* ------------------------------------------------------- the session's responses
\* the csrftoken cookie a response sets: None or <<value>>
CsrfValues == {"t1", "t2"}

Cookies == {None} \cup {Some(v) : v \in CsrfValues}

SessionTransport == TransportResponses

SessionStatus == [kind : {"status"}, status : StatusCodes, cookie : Cookies]

SessionBootResponses ==
    SessionTransport \cup SessionStatus \cup [kind : {"response"}, cookie : Cookies]

\* profile documents: a rendered page or a bare one, with or without a block
\* phrase
SessionBodies ==
    {b \in ProfileBodies :
        /\ b.og_title = b.og_desc /\ b.og_title # "marker"
        /\ ~b.og_image /\ b.username /\ ~b.small
        /\ b.phrases \in {{}, {"rate limit"}}}

SessionProfileResponses ==
    SessionTransport \cup SessionStatus
    \cup [kind : {"response"}, path : {"profile", "challenge"},
          body : SessionBodies, cookie : Cookies]

SessionFeedResponses ==
    SessionTransport \cup SessionStatus
    \cup [kind : {"response"},
          body : [login_text : BOOLEAN, json : {"invalid", "fail_other", "ok"},
                  data : {EmptyData}],
          cookie : Cookies]

\* ------------------------------------------------------- what an execution does
\* events: "get" (a request leaves, with its headers), "response" (a response
\* came back, with the csrftoken cookie it sets), "delay" (self._delay()),
\* "check_for_blocks" (self._check_for_blocks), "login_text_check" (the
\* inline test of _fetch_feed_page), "discover_tokens", "parse_json"
Ev(ev, target) == [ev |-> ev, target |-> target, headers |-> NoHeaders, cookie |-> None]

GetEv(target, headers) == [Ev("get", target) EXCEPT !.headers = headers]

\* the response of a request that got one (a transport error has none)
ResponseEv(target, resp) ==
    IF resp.kind = "transport" THEN <<>>
    ELSE <<[Ev("response", target) EXCEPT !.cookie = resp.cookie]>>

\* the client's cookie jar after the response (httpx stores the cookies of
\* every response it receives)
JarAfter(j, resp) ==
    IF resp.kind # "transport" /\ resp.cookie # None THEN resp.cookie[1] ELSE j

\* initialize(), when _ensure_initialized runs it: [trace, jar, tokens]
InitializeEffects(name, tok, j, boot) ==
    LET j1 == JarAfter(j, boot)
    IN  [trace |-> <<GetEv("bootstrap", get_base_headers(name))>>
                   \o ResponseEv("bootstrap", boot)
                   \o (IF boot.kind = "response"
                       THEN <<Ev("discover_tokens", "bootstrap")>> ELSE <<>>),
         jar |-> j1,
         tokens |-> IF boot.kind = "response"
                    THEN Some([csrf_token |-> j1]) ELSE tok]

\* _ensure_initialized: [trace, jar, tokens]
EnsureEffects(init, name, tok, j, boot) ==
    IF init THEN [trace |-> <<>>, jar |-> j, tokens |-> tok]
    ELSE InitializeEffects(name, tok, j, boot)

\* one execution of _fetch_profile_page with outcome `out`: [trace, jar, tokens]
ProfileEffects(init, name, tok, j, boot, resp, out) ==
    LET e == EnsureEffects(init, name, tok, j, boot)
    IN  IF ~init /\ boot.kind # "response" THEN e
        ELSE [trace |-> e.trace
                        \o <<Ev("delay", "profile"),
                             GetEv("profile", get_base_headers(name))>>
                        \o ResponseEv("profile", resp)
                        \o (IF resp.kind = "response"
                            THEN <<Ev("check_for_blocks", "profile")>> ELSE <<>>),
              jar |-> JarAfter(e.jar, resp),
              tokens |-> IF out.kind = "return" /\ resp.cookie # None /\ e.tokens # None
                         THEN Some([e.tokens[1] EXCEPT !.csrf_token = resp.cookie[1]])
                         ELSE e.tokens]

\* one execution of _fetch_feed_page: [trace, jar, tokens]
FeedEffects(init, name, tok, j, boot, resp) ==
    LET e == EnsureEffects(init, name, tok, j, boot)
        csrf == IF e.tokens # None THEN e.tokens[1].csrf_token ELSE ""
    IN  IF ~init /\ boot.kind # "response" THEN e
        ELSE [trace |-> e.trace
                        \o <<Ev("delay", "feed"),
                             GetEv("feed", get_ajax_headers(name, csrf))>>
                        \o ResponseEv("feed", resp)
                        \o (IF resp.kind = "response"
                            THEN <<Ev("login_text_check", "feed")>>
                                 \o (IF resp.body.login_text THEN <<>>
                                     ELSE <<Ev("parse_json", "feed")>>)
                            ELSE <<>>),
              jar |-> JarAfter(e.jar, resp),
              tokens |-> e.tokens]

\* ------------------------------------------------------- a session of fetches
\* One client, constructed with any requested profile name; its decorated
\* fetch functions are called one after the other, each answered by the
\* environment with any response.
RequestedProfiles ==
    {None} \cup {Some(n) : n \in ProfileNames \cup {"", "opera_linux"}}

SessionInit ==
    /\ wpc = "idle" /\ func = "none" /\ config = ClientConfig
    /\ attempt = 0 /\ last_exception = None /\ wout = NoOutcome
    /\ delay = 0 /\ executions = 0 /\ sleeps = 0
    /\ initialized = FALSE /\ bootstraps = 0
    /\ pc = "off" /\ max_posts = None /\ user_id = ""
    /\ all_posts = <<>> /\ next_max_id = None /\ more_available = TRUE
    /\ errors = <<>> /\ result = None /\ raised = None
    /\ delivered = <<>> /\ fetched = 0 /\ feed_calls = 0 /\ NoHistory
    /\ \E requested \in RequestedProfiles : profile_name \in HeaderGenerator(requested)
    /\ tokens = None /\ jar = "" /\ trace = <<>>
    /\ NoCall

\* a caller awaits _fetch_profile_page or _fetch_feed_page
SessionCall ==
    /\ pc = "off" /\ wpc \in {"idle", "returned", "raised"}
    /\ \E f \in {"profile", "feed"} : WrapperEnter(f, ClientConfig)
    /\ UNCHANGED <<cvars, svars, hvars, xvars>>

\* what the bootstrap request can answer (it fails at most MaxBootstraps times)
SessionBootChoices ==
    IF initialized THEN {[kind |-> "response", cookie |-> None]}
    ELSE IF bootstraps < MaxBootstraps THEN SessionBootResponses
    ELSE [kind : {"response"}, cookie : Cookies]

\* one execution of _fetch_profile_page inside the wrapper, with everything
\* it does to the session
SessionProfileAttempt ==
    /\ pc = "off" /\ func = "profile" /\ wpc = "call" /\ attempt < config.max_attempts
    /\ \E boot \in SessionBootChoices :
       \E resp \in (IF boot.kind = "response" THEN SessionProfileResponses ELSE {boot}) :
           LET r == _fetch_profile_page(initialized, boot, resp, attempt)
               e == ProfileEffects(initialized, profile_name, tokens, jar, boot, resp, r.out)
           IN  /\ initialized' = r.initialized
               /\ bootstraps' = bootstraps + r.ran
               /\ tokens' = e.tokens /\ jar' = e.jar /\ trace' = e.trace
               /\ IF r.out.kind = "return"
                  THEN WrapperReturn(r.out.value)
                  ELSE WrapperExcept(r.out.exc)
    /\ UNCHANGED <<svars, hvars, profile_name, fvars>>

\* one execution of _fetch_feed_page inside the wrapper
SessionFeedAttempt ==
    /\ pc = "off" /\ func = "feed" /\ wpc = "call" /\ attempt < config.max_attempts
    /\ \E boot \in SessionBootChoices :
       \E resp \in (IF boot.kind = "response" THEN SessionFeedResponses ELSE {boot}) :
           LET r == _fetch_feed_page(initialized, boot, resp, attempt)
               e == FeedEffects(initialized, profile_name, tokens, jar, boot, resp)
           IN  /\ initialized' = r.initialized
               /\ bootstraps' = bootstraps + r.ran
               /\ tokens' = e.tokens /\ jar' = e.jar /\ trace' = e.trace
               /\ IF r.out.kind = "return"
                  THEN WrapperReturn(r.out.value)
                  ELSE WrapperExcept(r.out.exc)
    /\ UNCHANGED <<svars, hvars, profile_name, fvars>>

SessionNext ==
    \/ SessionCall
    \/ SessionProfileAttempt
    \/ SessionFeedAttempt
    \/ RetrySleep

SessionSpec == SessionInit /\ [][SessionNext]_vars

\* ------------------------------------------------------- parsers.py: parse_feed_item
\* the media type lines of parse_feed_item.  code / product are what the item
\* holds under "media_type" / "product_type": None when the key is missing
\* mutant: the product type is looked at before the code
media_type_ProductFirst(code, product) ==
    LET media_type_code == IF code = None THEN 1 ELSE code[1]
        product_type == IF product = None THEN "" ELSE product[1]
    IN  IF product_type = "clips" THEN "reel"
        ELSE IF media_type_code = 8 THEN "carousel"
        ELSE IF media_type_code = 2 THEN "video"
        ELSE "image"

media_type(code, product) ==
    LET media_type_code == IF code = None THEN 1 ELSE code[1]
        product_type == IF product = None THEN "" ELSE product[1]
    IN  IF media_type_code = 8 THEN "carousel"
        ELSE IF media_type_code = 2
        THEN (IF product_type = "clips" THEN "reel" ELSE "video")
        ELSE "image"

\* ------------------------------------------------------- the pure functions alone
\* One application of calculate_delay, _check_for_blocks, parse_from_html or
\* of the media type resolution, to arguments drawn at the start.
DelayPolicies ==
    [max_attempts : {MaxAttemptsBound},
     base_delay : {10, 2000},
     max_delay : {3000, 300000},
     exponential_base : {0, 1, 2},
     jitter : BOOLEAN,
     retry_on_status : {DefaultRetryOnStatus}]

DelayStatuses == {None} \cup {Some(st) : st \in StatusCodes}

MediaCodes == {None} \cup {Some(n) : n \in {0, 1, 2, 3, 8}}

ProductTypes == {None} \cup {Some(t) : t \in {"", "clips", "feed", "igtv"}}

PureCalls ==
    [f : {"calculate_delay"},
     args : [attempt : 0..MaxAttemptsBound, config : DelayPolicies,
             response_status : DelayStatuses, j : JitterPercents]]
    \cup [f : {"_check_for_blocks"}, args : [path : Paths, html : ProfileBodies]]
    \cup [f : {"parse_from_html"}, args : [html : ProfileBodies]]
    \cup [f : {"media_type"}, args : [code : MediaCodes, product : ProductTypes]]

PureInit ==
    /\ wpc = "idle" /\ func = "none" /\ config = ClientConfig
    /\ attempt = 0 /\ last_exception = None /\ wout = NoOutcome
    /\ delay = 0 /\ executions = 0 /\ sleeps = 0
    /\ initialized = FALSE /\ bootstraps = 0
    /\ pc = "off" /\ max_posts = None /\ user_id = ""
    /\ all_posts = <<>> /\ next_max_id = None /\ more_available = TRUE
    /\ errors = <<>> /\ result = None /\ raised = None
    /\ delivered = <<>> /\ fetched = 0 /\ feed_calls = 0 /\ NoHistory
    /\ SessionUnobserved
    /\ call \in PureCalls /\ ret = None

Apply_calculate_delay ==
    /\ call.f = "calculate_delay" /\ ret = None
    /\ ret' = Some(calculate_delay(call.args.attempt, call.args.config,
                                   call.args.response_status, call.args.j))
    /\ UNCHANGED <<wvars, cvars, svars, hvars, ovars, call>>

Apply_check_for_blocks ==
    /\ call.f = "_check_for_blocks" /\ ret = None
    /\ ret' = Some(_check_for_blocks(call.args.path, call.args.html, 0))
    /\ UNCHANGED <<wvars, cvars, svars, hvars, ovars, call>>

Apply_parse_from_html ==
    /\ call.f = "parse_from_html" /\ ret = None
    /\ ret' = Some(parse_from_html(call.args.html))
    /\ UNCHANGED <<wvars, cvars, svars, hvars, ovars, call>>

Apply_media_type ==
    /\ call.f = "media_type" /\ ret = None
    /\ ret' = Some(media_type(call.args.code, call.args.product))
    /\ UNCHANGED <<wvars, cvars, svars, hvars, ovars, call>>

PureNext ==
    \/ Apply_calculate_delay
    \/ Apply_check_for_blocks
    \/ Apply_parse_from_html
    \/ Apply_media_type

PureSpec == PureInit /\ [][PureNext]_vars

\* ======================================================= properties
\* the posts the delivered raw items normalise to, in feed order
Accumulated == Normalised(delivered, 0)

Prefix(seq, n) == SubSeq(seq, 1, Min(n, Len(seq)))

Returned == pc = "returned"

\* C1: when a feed page fails (the wrapper raises, or the rest of the try
\* block raises) after earlier pages succeeded, the step that ends
\* scrape_full returns exactly the posts of the earlier pages, in feed order,
\* none dropped, and an error list holding the triggering error.
C1_PartialFailurePreserved ==
    [][(pc = "feed" /\ pc' = "returned" /\ Len(errors') > Len(errors))
        => /\ result' # None
           /\ result'[1].posts = Accumulated
           /\ delivered' = delivered
           /\ Len(result'[1].errors) = 1
           /\ (wpc = "raised" => result'[1].errors = <<wout>>)]_vars

\* C1 witness: two pages were accumulated, then a block error ended the scrape
C1_Witness ==
    /\ Returned /\ fetched >= 2 /\ feed_calls = fetched + 1
    /\ Len(result[1].posts) >= 2
    /\ Len(errors) = 1 /\ errors[1].type = "BlockDetectedError"

\* C2 (as claimed): whenever a failing page aborted pagination, the returned
\* has_more_posts is false.
C2_AbortReportsNoMore ==
    (Returned /\ result[1].errors # <<>>) => result[1].has_more_posts = FALSE

\* C3: with no cap, a scrape in which every page fetch succeeded returns the
\* posts of all fetched pages in feed order, no error, has_more_posts false,
\* and made exactly one feed call per page (none after the terminal page).
C3_UncappedExhaustion ==
    (Returned /\ max_posts = None /\ result[1].errors = <<>>)
        => /\ result[1].posts = Accumulated
           /\ result[1].total_posts_scraped = Len(Accumulated)
           /\ result[1].has_more_posts = FALSE
           /\ feed_calls = fetched
           /\ ~(more_available /\ Truthy(next_max_id, ""))

\* C3 witness: three pages fetched without a cap, all three items returned
C3_Witness ==
    /\ Returned /\ max_posts = None /\ errors = <<>>
    /\ fetched = 3 /\ Len(result[1].posts) = 3

\* C4: with a cap N >= 1 the result holds at most N posts, the first N of
\* the fetched pages' posts, and a feed page is being fetched only while
\* fewer than N posts are accumulated.
C4_ItemCap ==
    (max_posts # None /\ max_posts[1] >= 1)
        => /\ (pc = "feed" => Len(all_posts) < max_posts[1])
           /\ (Returned => /\ Len(result[1].posts) <= max_posts[1]
                           /\ result[1].posts = Prefix(Accumulated, max_posts[1]))

\* C4 witness: cap 2, two pages fetched delivering three posts, two returned
C4_Witness ==
    /\ Returned /\ max_posts = Some(2) /\ fetched = 2 /\ feed_calls = 2
    /\ Len(Accumulated) = 3 /\ Len(result[1].posts) = 2

\* C5: an exception leaves scrape_full only from the profile step (no feed
\* call was made), cancellation aside; a scrape in which a feed call failed
\* returns a result with a non-empty error list.
C5_OnlyProfileFailurePropagates ==
    /\ (pc = "raised" /\ raised[1].type # "CancelledError") => feed_calls = 0
    /\ (pc = "feed" /\ wpc = "raised" /\ wout.type # "CancelledError") => result = None
    /\ (Returned /\ feed_calls > fetched) => result[1].errors # <<>>
    /\ Returned => result # None

\* C5 witness: a feed page exhausted its retries on transport errors and the
\* scrape still returned, with the error recorded
C5_Witness ==
    /\ Returned /\ Len(result[1].errors) = 1
    /\ result[1].errors[1].type = "ConnectError" /\ result[1].errors[1].at = 2

\* C6 (as claimed): a scrape cancelled after posts were accumulated returns
\* a result holding those posts.
C6_CancelReturnsAccumulated ==
    (pc = "raised" /\ raised[1].type = "CancelledError" /\ all_posts # <<>>)
        => (result # None /\ result[1].posts = all_posts)

\* a failure the claim calls non-retryable under policy cfg
FatalForPolicy(e, cfg) ==
    \/ e.type \in {"BlockDetectedError", "ParserError", "ValueError"}
    \/ e.type = "HTTPStatusError" /\ e.status \notin cfg.retry_on_status

\* a failure the claim calls retryable under policy cfg
RetryableForPolicy(e, cfg) ==
    \/ e.type \in {"ConnectError", "TimeoutException", "RetryableError"}
    \/ e.type = "HTTPStatusError" /\ e.status \in cfg.retry_on_status

\* C7: a non-retryable failure leaves the wrapper on the attempt that raised
\* it: one execution per attempt so far, sleeps only for the earlier
\* attempts, no sleep computed for it; and the wrapper is never sleeping on,
\* or re-executing after, a non-retryable failure.
C7_FatalPropagatesAtOnce ==
    /\ (wpc = "raised" /\ FatalForPolicy(wout, config))
          => /\ wout.at = attempt
             /\ executions = attempt + 1
             /\ sleeps = attempt
             /\ delay = 0
    /\ (wpc \in {"sleep", "call"} /\ last_exception # None)
          => ~FatalForPolicy(last_exception[1], config)

\* C7 witness: after one retried failure, a 500 outside the policy's
\* retryable set is raised on the second attempt
C7_Witness ==
    /\ wpc = "raised" /\ func = "op"
    /\ wout.type = "HTTPStatusError" /\ wout.status = 500
    /\ 500 \notin config.retry_on_status
    /\ wout.at = 1 /\ sleeps = 1

\* C8: under a policy with max_attempts = k >= 1 the operation runs at most
\* k times; after the k-th execution the wrapper has returned the
\* operation's value or raised; what it raises is the failure of the latest
\* execution; a retryable failure is raised only by the k-th execution; it
\* returns nothing but a value the operation returned.
C8_ExhaustionRaisesLast ==
    config.max_attempts >= 1
        => /\ executions <= config.max_attempts
           /\ (executions = config.max_attempts => wpc \in {"returned", "raised"})
           /\ (wpc = "raised"
                 => /\ wout.at = executions - 1
                    /\ (RetryableForPolicy(wout, config)
                          => /\ executions = config.max_attempts
                             /\ last_exception = Some(wout)))
           /\ (wpc = "returned" => wout = OpValue)

\* C8 witness: three attempts allowed, three retryable failures, the third raised
C8_Witness ==
    /\ wpc = "raised" /\ func = "op" /\ config.max_attempts = 3
    /\ executions = 3 /\ sleeps = 2
    /\ wout.type = "TimeoutException" /\ wout.at = 2

FatalBlocks == {"login_required", "challenge_required", "not_found"}

\* C9: a login_required, challenge_required or not_found block leaves the
\* wrapper on the attempt that produced it, and the wrapper never sleeps on
\* or re-executes after such a block.
C9_AccessBlocksNeverRetried ==
    /\ (wpc = "raised" /\ wout.type = "BlockDetectedError" /\ wout.block \in FatalBlocks)
          => /\ wout.at = attempt
             /\ executions = attempt + 1
             /\ sleeps = attempt
    /\ (wpc \in {"sleep", "call"} /\ last_exception # None)
          => ~(last_exception[1].type = "BlockDetectedError"
               /\ last_exception[1].block \in FatalBlocks)

\* C9 witness: the third attempt of the profile fetch meets a not_found
\* phrase and the wrapper raises it
C9_Witness ==
    /\ pc = "profile" /\ wpc = "raised"
    /\ wout.type = "BlockDetectedError" /\ wout.block = "not_found"
    /\ wout.at = 2 /\ executions = 3

\* the outcomes the claim calls rate-limited
RateLimitedOutcome(e) ==
    \/ e.type = "BlockDetectedError" /\ e.block = "rate_limited"
    \/ e.type = "RetryableError" /\ e.msg = "rate_limited"
    \/ e.type = "HTTPStatusError" /\ e.status = RateLimitStatus

\* the least delay the amplified base can give at attempt att (jitter -25%)
AmplifiedFloor(att, cfg) ==
    (75 * Min(cfg.max_delay,
              RateLimitFactor * cfg.base_delay * Pow(cfg.exponential_base, att))) \div 100

\* C10 (as claimed): a rate-limited outcome is retried (it leaves the
\* wrapper only when the attempts are exhausted) and the sleep that follows
\* it uses the amplified base.
C10_RateLimitedRetriedAmplified ==
    /\ (wpc = "raised" /\ RateLimitedOutcome(wout))
          => executions = config.max_attempts
    /\ (wpc = "sleep" /\ RateLimitedOutcome(last_exception[1]))
          => delay >= AmplifiedFloor(attempt, config)

\* ------------------------------------------------------- the session's requests
\* the positions of the latest execution's trace that hold event ev
At(ev) == {i \in DOMAIN trace : trace[i].ev = ev}

\* the events that read a response body: token discovery and JSON decoding
Consuming == {"discover_tokens", "parse_json"}

\* C11: block detector coverage.  Whenever an execution reads the body of a
\* response (discovers tokens from the bootstrap page, decodes a feed page),
\* that response went through _check_for_blocks earlier in the execution.
C11_DetectorCoversEveryResponse ==
    \A i \in DOMAIN trace :
        trace[i].ev \in Consuming =>
            \E k \in At("check_for_blocks") : k < i /\ trace[k].target = trace[i].target

\* C13: pre-request pacing.  Every request of an execution (bootstrap,
\* profile document, feed page, on every attempt) comes directly after a
\* pacing delay.
C13_EveryRequestPaced ==
    \A i \in At("get") : i > 1 /\ trace[i - 1].ev = "delay"

ClientHintNames == {"Sec_CH_UA", "Sec_CH_UA_Mobile", "Sec_CH_UA_Platform"}

\* what the catalog profile defines for a client-hint header
ProfileHint(name, hint) ==
    CASE hint = "Sec_CH_UA" -> UA_PROFILES[name].sec_ch_ua
      [] hint = "Sec_CH_UA_Mobile" -> UA_PROFILES[name].sec_ch_ua_mobile
      [] hint = "Sec_CH_UA_Platform" -> UA_PROFILES[name].sec_ch_ua_platform

\* the headers h present the identity of catalog profile `name`
PresentsIdentity(h, name) ==
    /\ h.User_Agent = Sent(UA_PROFILES[name].user_agent)
    /\ h.Accept_Language = Sent(UA_PROFILES[name].accept_language)
    /\ \A hint \in ClientHintNames :
          /\ h[hint].sent <=> ProfileHint(name, hint) # Undefined
          /\ h[hint].sent => h[hint].value # "" /\ h[hint].value = ProfileHint(name, hint)

\* C14: header identity.  The profile fixed at construction never changes,
\* and every request (bootstrap, profile, feed, on every attempt) carries
\* its User-Agent and Accept-Language; a client-hint header is sent exactly
\* when the profile defines it, with the profile's value, never blank.
C14_HeaderIdentity ==
    /\ [](\A i \in At("get") : PresentsIdentity(trace[i].headers, profile_name))
    /\ [][profile_name' = profile_name]_vars

\* the third attempt of a profile fetch in a session whose profile defines
\* no client hints, in an execution that also made the bootstrap request
C14_Witness ==
    /\ profile_name = "firefox_windows" /\ func = "profile" /\ attempt = 2
    /\ \E i, k \in At("get") :
          /\ trace[i].target = "bootstrap" /\ trace[k].target = "profile"
          /\ ~trace[k].headers.Sec_CH_UA.sent
          /\ trace[k].headers.User_Agent.sent

\* the last response of the latest execution that set a csrftoken cookie
LastCookie ==
    LET S == {i \in At("response") :
                 trace[i].target \in {"profile", "feed"} /\ trace[i].cookie # None}
    IN  IF S = {} THEN None
        ELSE trace[CHOOSE i \in S : \A k \in S : k <= i].cookie

\* C15: csrf refresh.  After an execution in which a profile or feed
\* response set a csrftoken cookie, the session's csrf_token is the value of
\* the last such cookie.
C15_CsrfFollowsLatestCookie ==
    LastCookie # None => tokens # None /\ tokens[1].csrf_token = LastCookie[1]

\* ------------------------------------------------------- the pure functions
\* function f has been applied to the drawn arguments
Applied(f) == ret # None /\ call.f = f

\* C12: suppression rule.  On a path that is neither the login nor the
\* challenge redirect, a body holding both the og:title and the
\* og:description marker is passed by _check_for_blocks (no exception),
\* whatever block phrases it holds and however short it is.
C12_MarkersSuppressBlocks ==
    (/\ Applied("_check_for_blocks")
     /\ call.args.path = "profile"
     /\ call.args.html.og_title # "absent"
     /\ call.args.html.og_desc # "absent")
        => ret[1] = Return(call.args.html)

\* a short body with both markers and the challenge phrase is passed
C12_Witness ==
    /\ Applied("_check_for_blocks") /\ call.args.path = "profile"
    /\ call.args.html.og_title = "marker" /\ call.args.html.og_desc = "parsed"
    /\ "checkpoint_required" \in call.args.html.phrases
    /\ call.args.html.small /\ ~call.args.html.username
    /\ ret[1].kind = "return"

\* min(maxDelay, base x exponentialBase^attempt), base = 5 x baseDelay for a 429
FormulaDelay(att, cfg, status) ==
    LET base == IF status = Some(429) THEN 5 * cfg.base_delay ELSE cfg.base_delay
    IN  Min(cfg.max_delay, base * Pow(cfg.exponential_base, att))

\* C16: backoff delay formula.  With c = FormulaDelay: jitter disabled, the
\* delay is max(c, 100 ms); jitter enabled, the delay d satisfies
\* max(100 ms, 0.75 c) <= d <= max(100 ms, 1.25 c).
C16_DelayFormula ==
    Applied("calculate_delay") =>
        LET a == call.args
            c == FormulaDelay(a.attempt, a.config, a.response_status)
            d == ret[1]
        IN  IF a.config.jitter
            THEN 4 * d >= Max(400, 3 * c) /\ 4 * d <= Max(400, 5 * c)
            ELSE d = Max(c, 100)

\* a 429 on the third attempt under the default delays, lowest jitter draw:
\* 0.75 x (5 x 2 s x 2^2) = 30 s
C16_Witness ==
    /\ Applied("calculate_delay") /\ call.args.config.jitter
    /\ call.args.response_status = Some(429) /\ call.args.attempt = 2
    /\ call.args.config.base_delay = 2000 /\ call.args.config.exponential_base = 2
    /\ call.args.j = -25 /\ ret[1] = 30000

\* the delay of the attempt before, same policy and status
DelayBefore ==
    calculate_delay(call.args.attempt - 1, call.args.config,
                    call.args.response_status, call.args.j)

\* the delay of attempt 0 without a status, same policy
PlainDelayAtZero == calculate_delay(0, call.args.config, None, call.args.j)

\* C17, as amended: with jitter disabled, (a) for a fixed status and an
\* exponential base of at least 1 the delay does not decrease from one
\* attempt to the next; (b) when neither the cap nor the floor applies
\* (5 x baseDelay <= maxDelay and baseDelay >= 100 ms) the delay of a 429 at
\* attempt 0 is exactly 5 times the delay without a rate limit at attempt 0.
C17_MonotoneAndFiveTimes ==
    (Applied("calculate_delay") /\ ~call.args.config.jitter) =>
        /\ (call.args.attempt > 0 /\ call.args.config.exponential_base >= 1)
              => DelayBefore <= ret[1]
        /\ (/\ call.args.attempt = 0 /\ call.args.response_status = Some(429)
            /\ 5 * call.args.config.base_delay <= call.args.config.max_delay
            /\ call.args.config.base_delay >= 100)
              => ret[1] = 5 * PlainDelayAtZero

\* a 429 at attempt 0 under the default delays: 10 s, five times 2 s
C17_Witness ==
    /\ Applied("calculate_delay") /\ ~call.args.config.jitter
    /\ call.args.attempt = 0 /\ call.args.response_status = Some(429)
    /\ call.args.config.base_delay = 2000 /\ call.args.config.max_delay = 300000
    /\ ret[1] = 10000 /\ PlainDelayAtZero = 2000

\* C17, as stated: with jitter disabled the delay never decreases from one
\* attempt to the next, and the delay of a 429 at attempt 0 is exactly 5
\* times the delay without a rate limit at attempt 0, under every policy.
C17_AsStated ==
    (Applied("calculate_delay") /\ ~call.args.config.jitter) =>
        /\ call.args.attempt > 0 => DelayBefore <= ret[1]
        /\ (call.args.attempt = 0 /\ call.args.response_status = Some(429))
              => ret[1] = 5 * PlainDelayAtZero

\* C18: malformed feed page.  A scrape that was delivered a feed page with an
\* item that does not normalise returns with an error recorded.
C18_MalformedPageAborts ==
    (Returned /\ BadCount(delivered) > 0) => result[1].errors # <<>>

\* C19: a document without the og:title marker and without the
\* og:description marker makes parse_from_html raise.
C19_NoMarkersIsParseFailure ==
    (/\ Applied("parse_from_html")
     /\ call.args.html.og_title = "absent"
     /\ call.args.html.og_desc = "absent")
        => ret[1].kind = "raise"

\* C20: media type resolution.  Code 8 is "carousel" whatever the product
\* type; code 2 is "reel" with product "clips" and "video" with any other or
\* no product type; any other code, or no code, is "image".
C20_MediaTypeTable ==
    Applied("media_type") =>
        LET code == call.args.code
            product == call.args.product
        IN  /\ code = Some(8) => ret[1] = "carousel"
            /\ (code = Some(2) /\ product = Some("clips")) => ret[1] = "reel"
            /\ (code = Some(2) /\ product # Some("clips")) => ret[1] = "video"
            /\ code \notin {Some(8), Some(2)} => ret[1] = "image"

\* a carousel item whose product type is "clips"
C20_Witness ==
    /\ Applied("media_type")
    /\ call.args.code = Some(8) /\ call.args.product = Some("clips")
    /\ ret[1] = "carousel"

\* ------------------------------------------------------- the retry engine's order
\* the delays calculate_delay can give for the failure the wrapper holds
DelaysFor(att) ==
    {calculate_delay(att, config, DelayStatus(last_exception[1]), j) : j \in JitterPercents}

\* the call of the wrapper is over
WrapperDone == wpc \in {"returned", "raised"}

\* the call ended because the last permitted execution failed retryably
Exhausted == wpc = "raised" /\ executions > 0 /\ Retryable(wout, config)

\* how many executions of the finished call failed with a retryable exception
RetryableFailures ==
    IF executions = 0 THEN 0
    ELSE IF Exhausted THEN executions ELSE executions - 1

\* C21: retry engine ordering.  Before an execution the wrapper has slept
\* once per earlier execution (never before the first); while it sleeps, the
\* sleep follows the failed execution and its delay is computed from that
\* attempt's 0-based index; a finished call of n executions has slept n - 1
\* times: k - 1 times when its k retryable failures exhausted the attempts,
\* k times when it returned or failed fatally after k retryable failures;
\* and every call ends.
C21_OneSleepBetweenExecutions ==
    /\ [](/\ wpc = "call" => (sleeps = executions /\ attempt = executions)
          /\ wpc = "sleep" => /\ sleeps = executions - 1
                              /\ attempt = executions - 1
                              /\ last_exception # None
                              /\ last_exception[1].at = attempt
                              /\ delay \in DelaysFor(attempt)
          /\ (WrapperDone /\ executions > 0) => sleeps = executions - 1
          /\ (WrapperDone /\ executions = 0) => sleeps = 0
          /\ (WrapperDone /\ Exhausted) => /\ executions = config.max_attempts
                                           /\ sleeps = RetryableFailures - 1
          /\ (WrapperDone /\ ~Exhausted) => sleeps = RetryableFailures)
    /\ <>WrapperDone

\* two failing retryable attempts, then the third execution returns: two sleeps
C21_Witness ==
    /\ func = "op" /\ wpc = "returned" /\ config.max_attempts = 3
    /\ executions = 3 /\ sleeps = 2 /\ RetryableFailures = 2
    /\ last_exception # None /\ last_exception[1].at = 1

\* C21 as stated: a finished call with k > 0 failing retryable attempts has
\* slept exactly k - 1 times
C21_AsStated ==
    (WrapperDone /\ RetryableFailures > 0) => sleeps = RetryableFailures - 1

\* ------------------------------------------------------- the detector's order
\* the block type _check_for_blocks raised, "" when it raised none
RaisedBlock(r) ==
    IF r.kind = "raise" /\ r.exc.type = "BlockDetectedError" THEN r.exc.block ELSE ""

\* the detector raised the generic retryable signal
RaisedMinimal(r) ==
    r.kind = "raise" /\ r.exc.type = "RetryableError" /\ r.exc.msg = "minimal_response"

\* C22: decision order of the block detector.  A login path gives
\* login_required and a challenge path challenge_required whatever the body
\* holds, both meta markers included; on any other path both markers return
\* without raising; without them a block phrase gives its block type even
\* when the body is small and lacks "username"; only a body with no phrase
\* reaches the small-body test.
C22_DetectorOrder ==
    Applied("_check_for_blocks") =>
        LET path == call.args.path
            html == call.args.html
            r == ret[1]
        IN  /\ path = "login" => RaisedBlock(r) = "login_required"
            /\ path = "challenge" => RaisedBlock(r) = "challenge_required"
            /\ (path = "profile" /\ HasBothMarkers(html)) => r = Return(html)
            /\ (path = "profile" /\ ~HasBothMarkers(html) /\ html.phrases # {}) =>
                    /\ RaisedBlock(r) \in BlockTypes
                    /\ \E i \in DOMAIN BLOCK_PATTERNS :
                          /\ BLOCK_PATTERNS[i] = <<RaisedBlock(r), BLOCK_PATTERNS[i][2]>>
                          /\ BLOCK_PATTERNS[i][2] \in html.phrases
            /\ (path = "profile" /\ ~HasBothMarkers(html) /\ html.phrases = {}) =>
                    IF html.small /\ ~html.username
                    THEN RaisedMinimal(r)
                    ELSE r = Return(html)

\* a login redirect whose body carries both markers, a block phrase of
\* another type, and is small
C22_Witness ==
    /\ Applied("_check_for_blocks") /\ call.args.path = "login"
    /\ call.args.html.og_title = "parsed" /\ call.args.html.og_desc = "parsed"
    /\ "checkpoint_required" \in call.args.html.phrases
    /\ call.args.html.small /\ ~call.args.html.username
    /\ RaisedBlock(ret[1]) = "login_required"

\* ------------------------------------------------------- the small-body signal
\* e is the signal _check_for_blocks raises for a small body
IsMinimalSignal(e) == e.type = "RetryableError" /\ e.msg = "minimal_response"

\* the latest execution of the profile fetch ended in the small-body signal
ProfileGaveMinimal ==
    /\ pc = "profile" /\ executions > 0 /\ last_exception # None
    /\ IsMinimalSignal(last_exception[1])
    /\ last_exception[1].at = executions - 1

\* C23: the small-body signal is a RetryableError, never a block type; after
\* it the profile fetch is attempted again (a sleep, then the next attempt)
\* while attempts are left, and it is raised out of the retry engine, and
\* out of scrape_full, only by the last of the ClientMaxAttempts attempts.
C23_MinimalResponseRetried ==
    /\ ProfileGaveMinimal =>
          /\ last_exception[1].block = ""
          /\ IF executions < ClientMaxAttempts
             THEN \/ wpc = "sleep" /\ attempt = executions - 1
                  \/ wpc = "call" /\ attempt = executions /\ sleeps = executions
             ELSE /\ wpc = "raised" /\ wout = last_exception[1]
                  /\ executions = ClientMaxAttempts
                  /\ sleeps = ClientMaxAttempts - 1
    /\ (pc = "raised" /\ IsMinimalSignal(raised[1])) =>
          /\ executions = ClientMaxAttempts
          /\ raised[1].at = ClientMaxAttempts - 1
          /\ result = None

\* three small bodies in a row: the signal propagates after the third attempt
C23_Witness ==
    /\ pc = "raised" /\ IsMinimalSignal(raised[1])
    /\ executions = ClientMaxAttempts /\ sleeps = ClientMaxAttempts - 1

\* ------------------------------------------------------- the bootstrap
\* C24: within one session initialize() is invoked at most once, over all
\* fetches and all of their retry attempts.
C24_BootstrapAtMostOnce == bootstraps <= 1

\* C25: what a retry repeats is the fetch alone.  A failure of the parser
\* leaves scrape_full with the wrapper returned (nothing is fetched again),
\* and the bootstrap request is made on the first attempt of a fetch only,
\* never by a retry.
C25_RetryRepeatsFetchOnly ==
    /\ []((pc = "raised" /\ raised[1].type = "ParserError") => wpc = "returned")
    /\ [][bootstraps' # bootstraps => attempt = 0]_vars

\* ------------------------------------------------------- cursor chaining
\* a step that executes _fetch_feed_page (the step of a cancellation is the
\* only other one taken while the wrapper is about to call)
FeedRequestStep == pc = "feed" /\ wpc = "call" /\ pc' # "raised"

\* the cursor scrape_full holds after the pages fetched so far
ChainedCursor == IF fetched = 0 THEN None ELSE served_cursor[1]

\* C26: cursor chaining.  Every feed request, retries included, carries no
\* cursor while no page was fetched and otherwise exactly the (non-empty)
\* cursor of the latest page fetched; after a page without a cursor
\* scrape_full has returned, so no request follows it.
C26_CursorChaining ==
    /\ [][FeedRequestStep =>
             /\ sent_cursor' = Some(ChainedCursor)
             /\ fetched > 0 => Truthy(served_cursor[1], "")]_vars
    /\ [](/\ (fetched = 0) <=> (served_cursor = None)
          /\ (served_cursor # None /\ ~Truthy(served_cursor[1], "")) => pc = "returned"
          /\ (sent_cursor = None) => (fetched = 0 /\ served_cursor = None))

\* the second page was asked with the cursor of the first, and answered
\* with another cursor
C26_Witness ==
    /\ fetched = 2 /\ pc = "feed"
    /\ sent_cursor = Some(Some("C1")) /\ served_cursor = Some(Some("C2"))

\* ------------------------------------------------------- user-id back-fill
\* C27: profile.user_id is empty until a fetched page carries an owner, is
\* then the owner id of the first such page, and no later page changes it;
\* the result returns that id.
C27_UserIdBackFill ==
    /\ first_owner = None => user_id = ""
    /\ first_owner # None => user_id = first_owner[1]
    /\ Returned => result[1].user_id = user_id

\* the id was back-filled and a later page was fetched after it
C27_Witness ==
    /\ Returned /\ fetched = 3
    /\ first_owner = Some("7") /\ result[1].user_id = "7"

\* ------------------------------------------------------- termination
\* C28: every invocation of scrape_full eventually returns or raises.
C28_ScrapeTerminates == <>(pc \in {"returned", "raised"})

\* ------------------------------------------------------- the shape of the result
\* C29: a result with no error and has_more_posts = FALSE holds the posts of
\* every item of the fetched pages.
C29_CompleteWhenNoMore ==
    (Returned /\ result[1].errors = <<>> /\ ~result[1].has_more_posts)
        => result[1].posts = Accumulated

\* C30: the first failing feed page ends pagination.  An error is recorded
\* only by the step that returns, so no feed request follows it and the
\* error list holds at most one entry; total_posts_scraped is the length of
\* the returned posts.
C30_FirstFailureEnds ==
    /\ Len(errors) <= 1
    /\ errors # <<>> => (pc = "returned" /\ wpc = "idle")
    /\ Returned => /\ result[1].errors = errors
                   /\ result[1].total_posts_scraped = Len(result[1].posts)

\* the second page failed while the feed still had a cursor and more to give
C30_Witness ==
    /\ Returned /\ Len(result[1].errors) = 1
    /\ fetched = 1 /\ feed_calls = 2
    /\ more_available /\ Truthy(next_max_id, "")
    /\ result[1].total_posts_scraped = 2

\* ------------------------------------------------------- the cap 0
\* what a scrape without a cap does: it fetches at least one page, fetches
\* on however many posts it holds, truncates nothing, and without an error
\* it returns only after a page that ended the feed
UncappedBehaviour ==
    /\ Returned => /\ feed_calls >= 1
                   /\ result[1].posts = Accumulated
                   /\ result[1].total_posts_scraped = Len(Accumulated)
                   /\ (result[1].errors = <<>>
                         => /\ fetched = feed_calls
                            /\ ~(more_available /\ Truthy(next_max_id, "")))
    /\ pc = "feed" => all_posts = Accumulated

IsFeedLoginBlock(e) == e.type = "BlockDetectedError" /\ e.block = "login_required"

\* C32: once a feed response whose text holds both "login" and "required"
\* was read (whatever its JSON), the feed fetch has raised login_required on
\* the attempt that read it, with no sleep and no execution after it, and
\* scrape_full is about to return, or has returned, that one error with the
\* posts of the earlier pages.
C32_FeedLoginTextAborts ==
    login_seen =>
        \/ /\ pc = "feed" /\ wpc = "raised" /\ IsFeedLoginBlock(wout)
           /\ wout.at = attempt /\ executions = attempt + 1 /\ sleeps = attempt
           /\ all_posts = Accumulated /\ result = None
        \/ /\ Returned /\ Len(result[1].errors) = 1
           /\ IsFeedLoginBlock(result[1].errors[1])
           /\ result[1].posts = Accumulated

\* one page of two posts was fetched, the fetch of the second page failed
\* once on the transport and then read the login text
C32_Witness ==
    /\ Returned /\ login_seen /\ fetched = 1
    /\ Len(result[1].posts) = 2
    /\ result[1].errors[1].at = 1

====
